---- MODULE Spec2Model ----
(***************************************************************************)
(* A model of yellowbrick/text/tsne.py: the TSNEVisualizer object (its      *)
(* pipeline, class names, instance counter, colours and drawing surface),   *)
(* its methods make_transformer, fit, draw and finalize, and the quick      *)
(* method tsne.                                                             *)
(*                                                                          *)
(* Encoding of Python values.                                               *)
(*   - A label or a string is a TLA+ string.  "i1" stands for the integer   *)
(*     1, "1" for the string "1"; str() is the operator Str.                *)
(*   - None, where a string or a label is expected, is the string None.     *)
(*   - A list is a sequence; None where a list is expected is NoList.       *)
(*     Label arguments are lists: one is truthy when it is not empty.       *)
(*   - A projected point is the index of the instance it was computed from. *)
(***************************************************************************)
EXTENDS Naturals, Integers, Sequences, FiniteSets, TLC

\* ------------------------------------------------------------------ bounds
\* Largest number of instances handed to one fit, draw or tsne call.
MaxN == 2
\* The counter n_instances_ is unbounded; fit is only taken up to this total.
MaxTotal == 3
\* finalize is only taken this many times.
MaxFinalize == 1

\* ------------------------------------------------------------ Python values
None == "<None>"
NoList == << "<NoList>" >>

\* Python truthiness of a str-or-None and of a list-or-None.
TruthyStr(s) == s # None /\ s # ""
Truthy(l) == l # NoList /\ Len(l) > 0

Range(s) == {s[i] : i \in 1..Len(s)}
Min(a, b) == IF a <= b THEN a ELSE b

\* Label values of the inputs: two strings and the integer 1.
Labels == {"a", "b", "i1"}

\* str(label): the integer 1 prints as "1", a string is itself.
Str(label) == IF label = "i1" THEN "1" ELSE label

\* str.lower() on the selectors used here.
Lower(s) == CASE s = "SVD" -> "svd" [] s = "PCA" -> "pca" [] OTHER -> s

\* ------------------------------------------------------------------ inputs
Selectors == {None, "svd", "pca", "SVD", "", "lsa"}
ClassArgs == {NoList, << >>, <<"a">>, <<"b", "a">>, <<"1">>}
ColorArgs == {NoList, <<"red", "blue">>}
DecomposeBy == {50}

\* The label arguments of a call on n instances: absent, empty, or one label
\* per instance.
LabelArgs(n) == {NoList, << >>} \cup [1..n -> Labels]

\* The orders in which iterating set(y) can yield its elements.
SetOrders(S) == {f \in [1..Cardinality(S) -> S] :
                    \A i, j \in 1..Cardinality(S) : f[i] = f[j] => i = j}

\* ------------------------------------------------------- drawing surface
\* Lengths on the surface are in 1/3125 of the figure width, so that
\* repeated multiplication by 0.8 stays exact.
FullWidth == 3125
NoTitle == [text |-> "", count |-> 0]
NoLegend == [shown |-> FALSE, loc |-> "", anchor |-> <<0, 0>>]
\* A surface as matplotlib hands it out: ticks present, no title, no legend.
FreshAxes == [exists |-> TRUE, title |-> NoTitle, xticks |-> <<0, 1>>,
              yticks |-> <<0, 1>>, width |-> FullWidth, legend |-> NoLegend]
\* self.ax is None
NoAxes == [exists |-> FALSE, title |-> NoTitle, xticks |-> << >>,
           yticks |-> << >>, width |-> 0, legend |-> NoLegend]

\* plt.gca()
gca == FreshAxes

\* The constructions tried: every selector with one class name, every classes
\* argument, a supplied surface, and supplied colours.
Config(a, d, c, k) ==
    [ax |-> a, decompose |-> d, decompose_by |-> 50, classes |-> c, colors |-> k]
Configs ==
    {Config(NoAxes, d, <<"a">>, NoList) : d \in Selectors}
    \cup {Config(NoAxes, "svd", c, NoList) : c \in ClassArgs}
    \cup {Config(FreshAxes, "pca", c, NoList) : c \in {<< >>, <<"b", "a">>}}
    \cup {Config(NoAxes, None, c, <<"red", "blue">>) : c \in {<<"a">>, <<"b", "a">>}}

\* get_color_cycle(): the ordered colours of the configured palette.
get_color_cycle == <<"C0", "C1", "C2", "C3", "C4", "C5">>

VARIABLES
    transformer_,   \* self.transformer_: the pipeline's steps
    classes_,       \* self.classes_
    n_instances_,   \* self.n_instances_
    colors,         \* self.colors
    ax,             \* self.ax
    alive,          \* "object": the program holds a visualizer; "raised":
                    \* a call raised and the exception ended the program;
                    \* "ax": tsne returned the surface
    lastOp,         \* the call that ended last
    err,            \* the exception it raised, or "ok"
    arg,            \* the selector of the last make_transformer / construction
    ret,            \* the pipeline the last make_transformer returned
    held,           \* self.transformer_ when the last make_transformer began
    classesBefore,  \* self.classes_ when the last fit began
    used,           \* the pipeline the last fit ran fit_transform on
    labelsIn,       \* the label argument of the last fit / draw / tsne
    nIn,            \* the number of instances of the last fit / draw / tsne
    supplied,       \* the classes argument of the construction
    scatters,       \* the ax.scatter calls the last draw issued, in order
    fitSum,         \* sum of the sizes of the fit calls that returned
    nFinalize       \* finalize calls taken so far

vars == <<transformer_, classes_, n_instances_, colors, ax, alive, lastOp, err,
          arg, ret, held, classesBefore, used, labelsIn, nIn, supplied, scatters, fitSum, nFinalize>>

\* ------------------------------------------------------- make_transformer
decompositions == [svd |-> "TruncatedSVD", pca |-> "PCA"]

\* make_transformer(decompose, decompose_by): the exception raised and the
\* pipeline returned.  It assigns nothing on self.
make_transformer(decompose, decompose_by) ==
    IF TruthyStr(decompose) /\ Lower(decompose) \notin DOMAIN decompositions
    THEN [err |-> "YellowbrickValueError", steps |-> << >>]
    ELSE IF TruthyStr(decompose) /\ decompose \notin DOMAIN decompositions
    THEN [err |-> "KeyError", steps |-> << >>]
    ELSE [err |-> "ok",
          steps |-> (IF TruthyStr(decompose)
                     THEN << [name |-> decompose,
                              klass |-> decompositions[decompose],
                              n_components |-> decompose_by] >>
                     ELSE << >>)
                    \o << [name |-> "tsne", klass |-> "TSNE", n_components |-> 2] >>]

\* ----------------------------------------------------------- construction
\* TSNEVisualizer(ax, decompose, decompose_by, classes, colors): the exception
\* raised and the fields of the new object.
TSNEVisualizer(ax0, decompose, decompose_by, classes, colors0) ==
    LET t == make_transformer(decompose, decompose_by)
    IN  [err |-> t.err,
         self |-> [ax |-> ax0, classes_ |-> classes, n_instances_ |-> 0,
                   colors |-> colors0, transformer_ |-> t.steps]]

\* ------------------------------------------------------------------- draw
\* dict(zip(classes, color_values)) with classes = self.classes_ or [None]:
\* zip stops at the shorter sequence, a repeated key keeps its last colour.
color_mapping(cls) ==
    LET classes == IF Truthy(cls) THEN cls ELSE << None >>
        color_values == get_color_cycle
        m == Min(Len(classes), Len(color_values))
        last(k) == CHOOSE i \in 1..m :
                      classes[i] = k /\ \A j \in 1..m : classes[j] = k => j <= i
    IN  [k \in {classes[i] : i \in 1..m} |-> color_values[last(k)]]

\* The filter left out: every label reaches series.
skipped_never(cls, label) == FALSE

\* The filter of the labelled loop: a label is skipped when class names are
\* held and the label is not one of them.
skipped(cls, label) == Truthy(cls) /\ label \notin Range(cls)

\* The positions of zip(target, points) that reach series.
kept(cls, target, points) ==
    SelectSeq([i \in 1..Min(Len(target), Len(points)) |-> i],
              LAMBDA i : ~skipped(cls, target[i]))

\* The keys of series in the order they were first inserted.
RECURSIVE first_seen(_)
first_seen(labels) ==
    IF labels = << >> THEN << >>
    ELSE LET rest == first_seen(SubSeq(labels, 1, Len(labels) - 1))
             l == labels[Len(labels)]
         IN  IF l \in Range(rest) THEN rest ELSE Append(rest, l)

\* series: the keys in insertion order and, for each key, the points appended
\* to it ('x' and 'y' are appended together, so one sequence stands for both).
series_of(cls, points, target) ==
    IF Truthy(target)
    THEN LET idx == kept(cls, target, points)
             keys == first_seen([i \in 1..Len(idx) |-> target[idx[i]]])
         IN  [keys |-> keys,
              pts |-> [k \in Range(keys) |->
                         LET own == SelectSeq(idx, LAMBDA i : target[i] = k)
                         IN  [j \in 1..Len(own) |-> points[own[j]]]]]
    ELSE IF points = << >> THEN [keys |-> << >>, pts |-> << >>]
    ELSE [keys |-> << None >>, pts |-> [k \in {None} |-> points]]

\* The plotting loop: one scatter call per key, until colors[label] raises.
RECURSIVE plot(_, _, _)
plot(keys, pts, cmap) ==
    IF keys = << >> THEN [err |-> "ok", calls |-> << >>]
    ELSE IF keys[1] \notin DOMAIN cmap THEN [err |-> "KeyError", calls |-> << >>]
    ELSE LET more == plot(Tail(keys), pts, cmap)
         IN  [err |-> more.err,
              calls |-> << [label |-> keys[1], points |-> pts[keys[1]],
                            c |-> cmap[keys[1]], alpha |-> "0.7"] >> \o more.calls]

\* draw(points, target): the exception raised, the object afterwards and the
\* scatter calls issued.
draw(self, points, target) ==
    LET s == series_of(self.classes_, points, target)
        p == plot(s.keys, s.pts, color_mapping(self.classes_))
    IN  [err |-> p.err,
         self |-> [self EXCEPT !.ax = IF self.ax.exists THEN self.ax ELSE gca],
         calls |-> p.calls]

\* -------------------------------------------------------------------- fit
\* The "is None" test left out: labels overwrite class names already held.
derive_classes_always(cls, y, order) ==
    IF Truthy(y) THEN [i \in 1..Len(order) |-> Str(order[i])] ELSE cls

\* Lines 259-260: the class names after the first statement of fit, with
\* order the order in which set(y) is iterated.
derive_classes(cls, y, order) ==
    IF Truthy(y) /\ cls = NoList
    THEN [i \in 1..Len(order) |-> Str(order[i])]
    ELSE cls

\* "=" in place of "+=".
add_instances_overwrite(count, rows) == rows

\* Line 264: self.n_instances_ += vecs.shape[0]
add_instances(count, rows) == count + rows

\* fit(X, y) on n instances.  order is the iteration order of set(y);
\* pipeline_ok is whether the external fit_transform returns.
fit(self, n, y, order, pipeline_ok) ==
    LET s1 == [self EXCEPT !.classes_ = derive_classes(self.classes_, y, order)]
        vecs == [i \in 1..n |-> i]
        s2 == [s1 EXCEPT !.n_instances_ = add_instances(s1.n_instances_, Len(vecs))]
        d == draw(s2, vecs, y)
    IN  IF ~pipeline_ok
        THEN [err |-> "ExternalError", self |-> s1, calls |-> << >>, drew |-> FALSE]
        ELSE [err |-> d.err, self |-> d.self, calls |-> d.calls, drew |-> TRUE]

\* --------------------------------------------------------------- finalize
\* The "if self.classes_" test left out: the legend is always placed.
place_legend_always(cls, a) ==
    [a EXCEPT !.width = (a.width * 8) \div 10,
              !.legend = [shown |-> TRUE, loc |-> "center left",
                          anchor |-> <<10, 5>>]]

\* Lines 329-332: the position and the legend of the surface.
place_legend(cls, a) ==
    IF Truthy(cls)
    THEN [a EXCEPT !.width = (a.width * 8) \div 10,
                   !.legend = [shown |-> TRUE, loc |-> "center left",
                               anchor |-> <<10, 5>>]]
    ELSE a

\* finalize(): self.ax is a plain attribute that only draw fills in, so
\* without a surface the calls on self.ax raise.
finalize(self) ==
    IF ~self.ax.exists
    THEN [err |-> "AttributeError", self |-> self]
    ELSE LET titled == [self.ax EXCEPT
                          !.title = [text |-> "TSNE Projection of {} Documents",
                                     count |-> self.n_instances_],
                          !.yticks = << >>,
                          !.xticks = << >>]
         IN  [err |-> "ok",
              self |-> [self EXCEPT !.ax = place_legend(self.classes_, titled)]]

\* ----------------------------------------------------------- quick method
\* TextVisualizer.transform: no effect on the visualizer.
transform(self) == self

\* tsne(X, y, ax, decompose, decompose_by, classes, colors) on n instances:
\* the exception raised, the visualizer it built, the scatter calls issued and
\* whether visualizer.ax was returned.
tsne(n, y, ax0, decompose, decompose_by, classes, colors0, order, pipeline_ok) ==
    LET visualizer == TSNEVisualizer(ax0, decompose, decompose_by, classes, colors0)
        fitted == fit(visualizer.self, n, y, order, pipeline_ok)
    IN  IF visualizer.err # "ok"
        THEN [err |-> visualizer.err, self |-> visualizer.self, calls |-> << >>,
              returned |-> FALSE, fitted |-> FALSE]
        ELSE IF fitted.err # "ok"
        THEN [err |-> fitted.err, self |-> fitted.self, calls |-> fitted.calls,
              returned |-> FALSE, fitted |-> FALSE]
        ELSE [err |-> "ok", self |-> transform(fitted.self), calls |-> fitted.calls,
              returned |-> TRUE, fitted |-> TRUE]

\* ------------------------------------------------------------ state machine
Self == [ax |-> ax, classes_ |-> classes_, n_instances_ |-> n_instances_,
         colors |-> colors, transformer_ |-> transformer_]

Store(self) ==
    /\ ax' = self.ax
    /\ classes_' = self.classes_
    /\ n_instances_' = self.n_instances_
    /\ colors' = self.colors
    /\ transformer_' = self.transformer_

\* set(y) is iterated only on the branch that derives the class names.
OrdersOf(cls, y) ==
    IF Truthy(y) /\ cls = NoList THEN SetOrders(Range(y)) ELSE {<< >>}

\* The record of the last call holds what that call took and gave; the parts
\* a call does not have are blank.
NoPipelineCall == arg' = None /\ ret' = << >> /\ held' = << >>
NoDrawCall == labelsIn' = NoList /\ nIn' = 0 /\ scatters' = << >>

\* No exception is caught in this module: a call that raises ends the program.
After(e) == IF e = "ok" THEN "object" ELSE "raised"

\* The state after visualizer = TSNEVisualizer(...), whether it returned or raised.
Init ==
    \E cfg \in Configs :
        LET v == TSNEVisualizer(cfg.ax, cfg.decompose, cfg.decompose_by,
                                cfg.classes, cfg.colors)
        IN  /\ ax = v.self.ax
            /\ classes_ = v.self.classes_
            /\ n_instances_ = v.self.n_instances_
            /\ colors = v.self.colors
            /\ transformer_ = v.self.transformer_
            /\ alive = After(v.err)
            /\ lastOp = "init"
            /\ err = v.err
            /\ arg = cfg.decompose
            /\ ret = v.self.transformer_
            /\ held = << >>
            /\ classesBefore = NoList
            /\ used = << >>
            /\ labelsIn = NoList
            /\ nIn = 0
            /\ supplied = cfg.classes
            /\ scatters = << >>
            /\ fitSum = 0
            /\ nFinalize = 0

MakeTransformer ==
    /\ alive = "object"
    /\ \E decompose \in Selectors, by \in DecomposeBy :
        LET r == make_transformer(decompose, by)
        IN  /\ lastOp' = "make_transformer"
            /\ err' = r.err
            /\ alive' = After(r.err)
            /\ arg' = decompose
            /\ ret' = r.steps
    /\ held' = transformer_
    /\ classesBefore' = NoList
    /\ NoDrawCall
    /\ used' = << >>
    /\ UNCHANGED <<transformer_, classes_, n_instances_, colors, ax, supplied,
                   fitSum, nFinalize>>

Fit ==
    /\ alive = "object"
    /\ \E n \in 1..MaxN : \E y \in LabelArgs(n) : \E order \in OrdersOf(classes_, y) :
       \E pipeline_ok \in BOOLEAN :
        LET r == fit(Self, n, y, order, pipeline_ok)
        IN  /\ n_instances_ + n <= MaxTotal
            /\ Store(r.self)
            /\ lastOp' = "fit"
            /\ err' = r.err
            /\ alive' = After(r.err)
            /\ used' = transformer_
            /\ classesBefore' = classes_
            /\ labelsIn' = y
            /\ nIn' = n
            /\ scatters' = r.calls
            /\ fitSum' = IF r.err = "ok" THEN fitSum + n ELSE fitSum
    /\ NoPipelineCall
    /\ UNCHANGED <<supplied, nFinalize>>

Draw ==
    /\ alive = "object"
    /\ \E n \in 1..MaxN : \E target \in LabelArgs(n) :
        LET r == draw(Self, [i \in 1..n |-> i], target)
        IN  /\ Store(r.self)
            /\ lastOp' = "draw"
            /\ err' = r.err
            /\ alive' = After(r.err)
            /\ labelsIn' = target
            /\ nIn' = n
            /\ scatters' = r.calls
    /\ NoPipelineCall
    /\ classesBefore' = NoList
    /\ used' = << >>
    /\ UNCHANGED <<supplied, fitSum, nFinalize>>

Finalize ==
    /\ alive = "object"
    /\ nFinalize < MaxFinalize
    /\ LET r == finalize(Self)
       IN  /\ Store(r.self)
           /\ lastOp' = "finalize"
           /\ err' = r.err
           /\ alive' = After(r.err)
    /\ nFinalize' = nFinalize + 1
    /\ NoPipelineCall
    /\ NoDrawCall
    /\ classesBefore' = NoList
    /\ used' = << >>
    /\ UNCHANGED <<supplied, fitSum>>

\* The quick method, taken in place of driving the visualizer by hand: its
\* construction is the one Init recorded, with the same arguments.
Tsne ==
    /\ lastOp = "init"
    /\ \E n \in 1..MaxN : \E y \in LabelArgs(n) : \E order \in OrdersOf(supplied, y) :
       \E pipeline_ok \in BOOLEAN, by \in DecomposeBy :
        LET r == tsne(n, y, ax, arg, by, supplied, colors, order, pipeline_ok)
        IN  /\ Store(r.self)
            /\ alive' = IF r.returned THEN "ax" ELSE "raised"
            /\ lastOp' = "tsne"
            /\ err' = r.err
            /\ used' = IF r.fitted THEN r.self.transformer_ ELSE << >>
            /\ labelsIn' = y
            /\ nIn' = n
            /\ scatters' = r.calls
            /\ fitSum' = IF r.fitted THEN n ELSE 0
    /\ UNCHANGED <<arg, ret, held, classesBefore, supplied, nFinalize>>

Next == MakeTransformer \/ Fit \/ Draw \/ Finalize \/ Tsne

Spec == Init /\ [][Next]_vars

\* ------------------------------------------------------------- properties
RECURSIVE SumSizes(_)
SumSizes(calls) ==
    IF calls = << >> THEN 0 ELSE Len(calls[1].points) + SumSizes(Tail(calls))

AllPoints == [i \in 1..nIn |-> i]
StrAll(labels) == [i \in 1..Len(labels) |-> Str(labels[i])]
TitleOf(count) == [text |-> "TSNE Projection of {} Documents", count |-> count]

\* The draw of the last call was reached: the call was a draw, or a fit whose
\* pipeline returned.
DrawReached == lastOp = "draw" \/ (lastOp = "fit" /\ err # "ExternalError")

\* C1: a selector other than "svd", "pca" and None makes make_transformer, and
\* so construction, raise YellowbrickValueError, and leaves the pipeline the
\* visualizer held as it was.
C1_InvalidSelectorRaises ==
    (lastOp \in {"init", "make_transformer"} /\ arg \notin {"svd", "pca", None})
        => /\ err = "YellowbrickValueError"
           /\ lastOp = "make_transformer" => transformer_ = held

\* C2: after a make_transformer call that returned, the visualizer's
\* transformer_ is the pipeline that call built.
C2_PipelineReplaced ==
    (lastOp = "make_transformer" /\ err = "ok") => transformer_ = ret

\* C3: with labels absent or empty, the draw issues exactly one scatter call,
\* keyed by None and holding all n points, whatever the visualizer's classes.
C3_UnlabelledOneGroup ==
    (DrawReached /\ ~Truthy(labelsIn))
        => /\ err = "ok"
           /\ Len(scatters) = 1
           /\ scatters[1].label = None
           /\ scatters[1].points = AllPoints

\* C4: on a visualizer constructed without classes, a fit with one label per
\* instance drawn from k distinct values issues k scatter calls, each holding
\* only points whose label is the call's label, with sizes summing to n.
C4_LabelledGroups ==
    (lastOp = "fit" /\ err # "ExternalError" /\ supplied = NoList /\ Truthy(labelsIn))
        => /\ err = "ok"
           /\ Len(scatters) = Cardinality(Range(labelsIn))
           /\ \A g \in Range(scatters) : \A p \in Range(g.points) : labelsIn[p] = g.label
           /\ SumSizes(scatters) = nIn

C6_CounterIsSum ==
    /\ [](lastOp = "init" => n_instances_ = 0)
    /\ [](err = "ok" => n_instances_ = fitSum)
    /\ [][lastOp' \in {"draw", "finalize", "make_transformer"}
            => n_instances_' = n_instances_]_vars

C6_Witness ==
    /\ lastOp = "fit"
    /\ err = "ok"
    /\ nIn = 2
    /\ n_instances_ = 3

C8_AssignedColor ==
    LET names == IF Truthy(classes_) THEN classes_ ELSE << None >>
        palette == IF colors # NoList THEN colors ELSE get_color_cycle
    IN  lastOp \in {"fit", "draw"}
            => \A g \in Range(scatters) :
                  \E i \in 1..Min(Len(names), Len(palette)) :
                      names[i] = g.label /\ g.c = palette[i]

\* C9: when tsne returns the surface, finalize has run on it: the title embeds
\* the instance count, and without labels there is one scatter call, keyed by
\* None, holding one point per instance.
C9_QuickMethodFinalizes ==
    (lastOp = "tsne" /\ err = "ok")
        => /\ ax.title = TitleOf(nIn)
           /\ labelsIn = NoList
                => (Len(scatters) = 1 /\ scatters[1].label = None
                    /\ scatters[1].points = AllPoints)

\* C10: a finalize that returns leaves both tick arrays empty and the title
\* embedding the counter; with class names held the width is 80% of what it
\* was and the legend sits outside the plot, vertically centred; without them
\* the width is as before and there is no legend.
C10_Finalize ==
    [][(lastOp' = "finalize" /\ err' = "ok")
        => /\ ax'.xticks = << >>
           /\ ax'.yticks = << >>
           /\ ax'.title = TitleOf(n_instances_')
           /\ IF Truthy(classes_')
              THEN /\ 10 * ax'.width = 8 * ax.width
                   /\ ax'.legend.shown
                   /\ ax'.legend.loc = "center left"
                   /\ ax'.legend.anchor[1] >= 10
                   /\ ax'.legend.anchor[2] = 5
              ELSE /\ ax'.width = ax.width
                   /\ ~ax'.legend.shown]_vars

C10_Witness ==
    /\ lastOp = "finalize"
    /\ err = "ok"
    /\ Truthy(classes_)
    /\ n_instances_ = 2
    /\ ax.title = TitleOf(2)
    /\ ax.legend.shown
    /\ ax.width = 2500

====
